---- MODULE Spec2Model ----
(***************************************************************************)
(* A model of knl/prefect: the engine / session-factory caches and the    *)
(* dialect configurations of prefect.orion.database.configurations, the    *)
(* flow-run store they write to, the Task / Parameter declarations of     *)
(* prefect.task, the attributes of prefect.runtime.task_run, and the       *)
(* sqlite migration c0a9e054fd84 of the indexes on artifact_collection.    *)
(***************************************************************************)
EXTENDS Integers, Sequences, FiniteSets, TLC

VARIABLES
    dialect,            \* which DatabaseConfigurationBase the interface delegates to
    settings,           \* settings.orion.database: connection_url and echo
    ENGINES,            \* cache key -> engine (index into created)
    SESSION_FACTORIES,  \* (loop, bind) -> session factory (index into factories)
    created,            \* every engine create_async_engine has built, in order
    factories,          \* every async_scoped_session built, in order
    stack,              \* per asyncio task: the engine() frames it is inside
    outcome,            \* per asyncio task: how its last call ended
    installs,           \* history: every ENGINES[cache_key] = engine executed
    returned,           \* history: every value an engine() call returned
    returnedSF,         \* history: every value a session_factory() call returned
    provisioned,        \* connection urls on which create_all has run
    store,              \* per connection url: schema object -> number of rows
    create_all_runs,    \* history: how many times create_all has run
    calls,              \* number of top-level calls made so far
    via,                \* per task: the OrionDBInterface method its call came through
    flow_run,           \* table flow_run: id -> row
    flow_run_state,     \* table flow_run_state: id -> row, ids in insertion order
    nextRun,            \* the next fresh flow run id
    req,                \* per client: the run-creation request it is executing
    lastOp,             \* history: the statement executed last
    task,               \* the Task or Parameter constructed last
    serialized,         \* the mapping to deserialize
    deserialized,       \* the object the last deserialize returned
    raised,             \* the exception the last Task operation raised
    context,            \* prefect.context during the last Task operation
    add_task,           \* the flow.add_task calls of the last Task operation
    result,             \* how the last run() ended, and on which object
    call,               \* the last call of Task.inputs or Task.__call__
    dependencies,       \* history: the flow.set_dependencies calls
    task_run_ctx,       \* TaskRunContext.get(): <<>> for None, <<context>> when active
    accessed,           \* the last attribute access on prefect.runtime.task_run
    indexes,            \* the indexes on table artifact_collection
    foreign_keys,       \* PRAGMA foreign_keys of the migration's connection
    migration           \* the migration function that runs and how far it is

cacheVars == <<dialect, settings, ENGINES, SESSION_FACTORIES, created, factories,
               stack, outcome, installs, returned, returnedSF, provisioned, store,
               create_all_runs, calls, via>>

storeVars == <<flow_run, flow_run_state, nextRun, req, lastOp>>

bindVars == <<call, dependencies>>

taskVars == <<task, serialized, deserialized, raised, context, add_task, result,
              bindVars>>

runtimeVars == <<task_run_ctx, accessed>>

migrationVars == <<indexes, foreign_keys, migration>>

sideVars == <<runtimeVars, migrationVars>>

vars == <<cacheVars, storeVars, taskVars, sideVars>>

----------------------------------------------------------------------------
(* Bounds *)

MaxCalls == 2
RecursionLimit == 3
MaxRuns == 2
MaxStates == 2
MaxDependencies == 2

----------------------------------------------------------------------------
(* Event loops, tasks and the arguments engine() is called with *)

Loops == {"L1", "L2"}
Tasks == {"t1", "t2", "t3"}

\* asyncio.get_event_loop(): t1 and t2 run on the same loop, t3 on another one
get_event_loop(t) == IF t = "t3" THEN "L2" ELSE "L1"

Dialects == {"postgresql", "sqlite"}
Urls == {":memory:", "file:db%3Fmode=memory", "new.db", "old.db"}
Echos == BOOLEAN
Timeouts == {"None", "5"}

\* the (connection_url, echo, timeout) triples engine() is called with
CallArgs ==
    { [url |-> ":memory:", echo |-> FALSE, timeout |-> "None"],
      [url |-> "old.db", echo |-> FALSE, timeout |-> "None"],
      [url |-> "new.db", echo |-> TRUE, timeout |-> "5"],
      [url |-> "file:db%3Fmode=memory", echo |-> FALSE, timeout |-> "None"] }

\* the values of settings.orion.database
Settings ==
    { [url |-> ":memory:", echo |-> FALSE],
      [url |-> "old.db", echo |-> FALSE] }

EmptyMap == [k \in {} |-> 0]

\* os.path.exists(engine.url.database)
path_exists(url) == url = "old.db"

\* `sub in url`, for the two markers the configuration looks for
Contains(sub, url) ==
    \/ sub = ":memory:" /\ url = ":memory:"
    \/ sub = "mode=memory" /\ url = "file:db%3Fmode=memory"

\* the condition of `if this is a new sqlite database create all database objects`
is_new_database(url) ==
    \/ Contains(":memory:", url)
    \/ Contains("mode=memory", url)
    \/ ~ path_exists(url)

\* kwargs.update(poolclass=sa.pool.SingletonThreadPool) when ":memory:" in connection_url
poolclass(url) ==
    IF Contains(":memory:", url) THEN "SingletonThreadPool" ELSE "default"

create_async_engine(url, echo, timeout, pool) ==
    [url |-> url, echo |-> echo, connect_args |-> timeout, poolclass |-> pool]

\* the cache key without its loop component
cache_key_without_loop(loop, connection_url, echo, timeout) ==
    [loop |-> "L1", url |-> connection_url, echo |-> echo, timeout |-> timeout]

cache_key(loop, connection_url, echo, timeout) ==
    [loop |-> loop, url |-> connection_url, echo |-> echo, timeout |-> timeout]

sf_cache_key(loop, bind) == [loop |-> loop, bind |-> bind]

\* OrionDBInterface.engine: db_config.engine(self.connection_url(), self.echo, self.timeout)
interface_key(loop) == cache_key(loop, settings.url, settings.echo, "None")

\* db_interface.Base.metadata: the tables and secondary indexes of the schema
metadata == {"flow_run", "flow_run_state", "uq_flow_run__flow_id_idempotency_key"}

\* the file that exists: written under an earlier schema, it has table
\* flow_run with one row in it
OldDb == ("flow_run" :> 1)

\* a create_all that drops what exists before it creates
create_all_recreate(db) == [o \in metadata |-> 0]

\* metadata.create_all(conn), checkfirst as it is by default: creates the
\* objects the store lacks and leaves the others and their rows alone
create_all(db) ==
    [o \in DOMAIN db \cup metadata |-> IF o \in DOMAIN db THEN db[o] ELSE 0]

\* the frame of a create_db() that a task called, not engine()
TopLevelCreateDb == [key |-> cache_key("None", "None", FALSE, "None"), eng |-> 0,
                     pc |-> "create_db", dbeng |-> 0]

Front(s) == SubSeq(s, 1, Len(s) - 1)
Top(s) == s[Len(s)]

\* a task that entered create_db() from engine() runs on, without yielding to
\* its loop, until create_db reaches engine.begin()
LoopBusy(l) ==
    \E t \in Tasks :
        /\ get_event_loop(t) = l
        /\ stack[t] # <<>>
        /\ Top(stack[t]).pc = "create_db"

\* the awaiting caller of a returning engine() frame: create_db() goes on to
\* `async with engine.begin()`, where the task yields to its loop
Resume(stk, e) ==
    IF stk = <<>> THEN <<>>
    ELSE [stk EXCEPT ![Len(stk)] = [@ EXCEPT !.pc = "begin", !.dbeng = e]]

----------------------------------------------------------------------------
(* engine(): the result of running the coroutine from its entry up to its   *)
(* return or to its first suspension, as the new values of the cache state  *)

\* `return ENGINES[cache_key]` to the caller whose frames are stk
EngineReturn(t, key, stk, engines, made, inst) ==
    [stk |-> Resume(stk, engines[key]),
     created |-> made,
     ENGINES |-> engines,
     installs |-> inst,
     returned |-> returned \cup
        {[loop |-> get_event_loop(t), key |-> key, eng |-> engines[key]]}]

\* AsyncPostgresConfiguration.engine
postgres_engine(t, connection_url, echo, timeout, stk) ==
    LET key == cache_key(get_event_loop(t), connection_url, echo, timeout)
        e == Len(created) + 1
        engine == create_async_engine(connection_url, echo, timeout, "default")
    IN  IF key \in DOMAIN ENGINES
        THEN EngineReturn(t, key, stk, ENGINES, created, installs)
        ELSE EngineReturn(t, key, stk, (key :> e) @@ ENGINES, Append(created, engine),
                          installs \cup {[key |-> key, eng |-> e]})

\* AioSqliteConfiguration.engine up to `await create_db()`
sqlite_engine(t, connection_url, echo, timeout, stk) ==
    LET key == cache_key(get_event_loop(t), connection_url, echo, timeout)
        e == Len(created) + 1
        engine == create_async_engine(connection_url, echo, timeout,
                                      poolclass(connection_url))
    IN  IF key \in DOMAIN ENGINES
        THEN EngineReturn(t, key, stk, ENGINES, created, installs)
        ELSE IF is_new_database(engine.url)
        THEN [stk |-> Append(stk, [key |-> key, eng |-> e, pc |-> "create_db", dbeng |-> 0]),
              created |-> Append(created, engine),
              ENGINES |-> ENGINES,
              installs |-> installs,
              returned |-> returned]
        ELSE EngineReturn(t, key, stk, (key :> e) @@ ENGINES, Append(created, engine),
                          installs \cup {[key |-> key, eng |-> e]})

\* db_config.engine(...) of the configured dialect
config_engine(t, connection_url, echo, timeout, stk) ==
    IF dialect = "postgresql"
    THEN postgres_engine(t, connection_url, echo, timeout, stk)
    ELSE sqlite_engine(t, connection_url, echo, timeout, stk)

\* OrionDBInterface.engine
interface_engine(t, stk) ==
    config_engine(t, settings.url, settings.echo, "None", stk)

SetCache(t, r) ==
    /\ stack' = [stack EXCEPT ![t] = r.stk]
    /\ created' = r.created
    /\ ENGINES' = r.ENGINES
    /\ installs' = r.installs
    /\ returned' = r.returned

----------------------------------------------------------------------------
(* Actions of the cache *)

\* a task calls db_config.engine(connection_url, echo, timeout)
EngineCall(t, connection_url, echo, timeout) ==
    /\ stack[t] = <<>>
    /\ ~ LoopBusy(get_event_loop(t))
    /\ calls < MaxCalls
    /\ calls' = calls + 1
    /\ SetCache(t, config_engine(t, connection_url, echo, timeout, <<>>))
    /\ outcome' = [outcome EXCEPT ![t] = "ok"]
    /\ via' = [via EXCEPT ![t] = "none"]
    /\ UNCHANGED <<dialect, settings, SESSION_FACTORIES, factories, returnedSF,
                   provisioned, store, create_all_runs>>
    /\ UNCHANGED <<storeVars, taskVars, sideVars>>

\* create_db(): provide_database_interface() and `await db_config.engine()`;
\* the interpreter raises RecursionError when the frames run out
CreateDbEngine(t) ==
    /\ stack[t] # <<>>
    /\ Top(stack[t]).pc = "create_db"
    /\ IF Len(stack[t]) >= RecursionLimit
       THEN /\ stack' = [stack EXCEPT ![t] = <<>>]
            /\ outcome' = [outcome EXCEPT ![t] = "RecursionError"]
            /\ UNCHANGED <<created, ENGINES, installs, returned>>
       ELSE /\ SetCache(t, interface_engine(t, stack[t]))
            /\ UNCHANGED outcome
    /\ UNCHANGED <<dialect, settings, SESSION_FACTORIES, factories, returnedSF,
                   provisioned, store, create_all_runs, calls, via>>
    /\ UNCHANGED <<storeVars, taskVars, sideVars>>

\* a task calls create_db(): provide_database_interface() and
\* `await db_config.engine()`, up to the first suspension
CreateDbCall(t) ==
    /\ stack[t] = <<>>
    /\ ~ LoopBusy(get_event_loop(t))
    /\ calls < MaxCalls
    /\ calls' = calls + 1
    /\ SetCache(t, interface_engine(t, <<TopLevelCreateDb>>))
    /\ outcome' = [outcome EXCEPT ![t] = "ok"]
    /\ via' = [via EXCEPT ![t] = "none"]
    /\ UNCHANGED <<dialect, settings, SESSION_FACTORIES, factories, returnedSF,
                   provisioned, store, create_all_runs>>
    /\ UNCHANGED <<storeVars, taskVars, sideVars>>

\* create_db(): `async with engine.begin()` runs metadata.create_all on the
\* interface's engine; when engine() had called it: ENGINES[cache_key] =
\* engine and return ENGINES[cache_key]
CreateDbCreateAll(t) ==
    /\ stack[t] # <<>>
    /\ Top(stack[t]).pc = "begin"
    /\ ~ LoopBusy(get_event_loop(t))
    /\ LET f == Top(stack[t])
           url == created[f.dbeng].url
       IN  /\ provisioned' = provisioned \cup {url}
           /\ store' = [store EXCEPT ![url] = create_all(store[url])]
           /\ create_all_runs' = create_all_runs + 1
           /\ IF f.eng = 0
              THEN SetCache(t, [stk |-> <<>>, created |-> created, ENGINES |-> ENGINES,
                                installs |-> installs, returned |-> returned])
              ELSE SetCache(t, EngineReturn(t, f.key, Front(stack[t]),
                                            (f.key :> f.eng) @@ ENGINES, created,
                                            installs \cup {[key |-> f.key, eng |-> f.eng]}))
    /\ UNCHANGED <<dialect, settings, SESSION_FACTORIES, factories, returnedSF,
                   outcome, calls, via>>
    /\ UNCHANGED <<storeVars, taskVars, sideVars>>

\* AsyncPostgresConfiguration.session_factory(bind)
postgres_session_factory(t, bind) ==
    LET key == sf_cache_key(get_event_loop(t), bind)
        sf == Len(factories) + 1
        map == IF key \in DOMAIN SESSION_FACTORIES
               THEN SESSION_FACTORIES
               ELSE (key :> sf) @@ SESSION_FACTORIES
    IN  /\ SESSION_FACTORIES' = map
        /\ factories' = IF key \in DOMAIN SESSION_FACTORIES
                        THEN factories
                        ELSE Append(factories, [bind |-> bind])
        /\ returnedSF' = returnedSF \cup
              {[loop |-> get_event_loop(t), key |-> key, sf |-> map[key]]}
        /\ outcome' = [outcome EXCEPT ![t] = "ok"]

\* AioSqliteConfiguration.session_factory(self): its first statement is
\* `await self.engine()`, a call without engine()'s three required arguments
sqlite_session_factory(t) ==
    /\ outcome' = [outcome EXCEPT ![t] = "TypeError"]
    /\ UNCHANGED <<SESSION_FACTORIES, factories, returnedSF>>

\* a task calls db_config.session_factory on an engine it holds
SessionFactoryCall(t, bind) ==
    /\ stack[t] = <<>>
    /\ ~ LoopBusy(get_event_loop(t))
    /\ calls < MaxCalls
    /\ calls' = calls + 1
    /\ bind \in 1..Len(created)
    /\ IF dialect = "postgresql"
       THEN postgres_session_factory(t, bind)
       ELSE sqlite_session_factory(t)
    /\ via' = [via EXCEPT ![t] = "none"]
    /\ UNCHANGED <<dialect, settings, ENGINES, created, stack, installs, returned,
                   provisioned, store, create_all_runs>>
    /\ UNCHANGED <<storeVars, taskVars, sideVars>>

\* the parameters, after self, of the configured dialect's run_migrations
run_migrations_params ==
    IF dialect = "postgresql" THEN <<"base_model">> ELSE <<>>

\* the parameters, after self, of the configured dialect's session_factory
session_factory_params ==
    IF dialect = "postgresql" THEN <<"bind">> ELSE <<>>

\* a call that passes args positionally to a method with these parameters,
\* none of which has a default
positional_call(params, args) ==
    IF Len(args) = Len(params) THEN "ok" ELSE "TypeError"

\* OrionDBInterface.run_migrations: self.db_config.run_migrations(self.Base),
\* as __init__ calls it too
InterfaceRunMigrations(t) ==
    /\ stack[t] = <<>>
    /\ ~ LoopBusy(get_event_loop(t))
    /\ calls < MaxCalls
    /\ calls' = calls + 1
    /\ outcome' = [outcome EXCEPT
                      ![t] = positional_call(run_migrations_params, <<"Base">>)]
    /\ via' = [via EXCEPT ![t] = "run_migrations"]
    /\ UNCHANGED <<dialect, settings, ENGINES, SESSION_FACTORIES, created, factories,
                   stack, installs, returned, returnedSF, provisioned, store,
                   create_all_runs>>
    /\ UNCHANGED <<storeVars, taskVars, sideVars>>

\* OrionDBInterface.engine
InterfaceEngine(t) ==
    /\ stack[t] = <<>>
    /\ ~ LoopBusy(get_event_loop(t))
    /\ calls < MaxCalls
    /\ calls' = calls + 1
    /\ SetCache(t, interface_engine(t, <<>>))
    /\ outcome' = [outcome EXCEPT ![t] = "ok"]
    /\ via' = [via EXCEPT ![t] = "engine"]
    /\ UNCHANGED <<dialect, settings, SESSION_FACTORIES, factories, returnedSF,
                   provisioned, store, create_all_runs>>
    /\ UNCHANGED <<storeVars, taskVars, sideVars>>

\* OrionDBInterface.session_factory:
\* self.db_config.session_factory((await self.engine())); the argument is
\* evaluated first, and the call is made once engine() has returned
InterfaceSessionFactory(t) ==
    /\ stack[t] = <<>>
    /\ ~ LoopBusy(get_event_loop(t))
    /\ calls < MaxCalls
    /\ calls' = calls + 1
    /\ via' = [via EXCEPT ![t] = "session_factory"]
    /\ LET r == interface_engine(t, <<>>)
           key == interface_key(get_event_loop(t))
       IN  /\ SetCache(t, r)
           /\ IF key \notin DOMAIN r.ENGINES
              THEN /\ outcome' = [outcome EXCEPT ![t] = "ok"]
                   /\ UNCHANGED <<SESSION_FACTORIES, factories, returnedSF>>
              ELSE IF positional_call(session_factory_params, <<r.ENGINES[key]>>) = "ok"
              THEN postgres_session_factory(t, r.ENGINES[key])
              ELSE /\ outcome' = [outcome EXCEPT ![t] = "TypeError"]
                   /\ UNCHANGED <<SESSION_FACTORIES, factories, returnedSF>>
    /\ UNCHANGED <<dialect, settings, provisioned, store, create_all_runs>>
    /\ UNCHANGED <<storeVars, taskVars, sideVars>>

InitCache ==
    /\ dialect \in Dialects
    /\ settings \in Settings
    /\ ENGINES = EmptyMap
    /\ SESSION_FACTORIES = EmptyMap
    /\ created = <<>>
    /\ factories = <<>>
    /\ stack = [t \in Tasks |-> <<>>]
    /\ outcome = [t \in Tasks |-> "none"]
    /\ installs = {}
    /\ returned = {}
    /\ returnedSF = {}
    /\ provisioned = {}
    /\ store = [u \in Urls |-> IF path_exists(u) THEN OldDb ELSE EmptyMap]
    /\ create_all_runs = 0
    /\ calls = 0
    /\ via = [t \in Tasks |-> "none"]

NextCache ==
    \/ \E t \in Tasks, a \in CallArgs : EngineCall(t, a.url, a.echo, a.timeout)
    \/ \E t \in Tasks : CreateDbCall(t)
    \/ \E t \in Tasks : CreateDbEngine(t)
    \/ \E t \in Tasks : CreateDbCreateAll(t)
    \/ \E t \in Tasks, b \in 1..(MaxCalls * RecursionLimit) : SessionFactoryCall(t, b)

\* the calls made through OrionDBInterface, and create_db, which makes them
NextInterface ==
    \/ \E t \in Tasks : InterfaceRunMigrations(t)
    \/ \E t \in Tasks : InterfaceEngine(t)
    \/ \E t \in Tasks : InterfaceSessionFactory(t)
    \/ \E t \in Tasks : CreateDbCall(t)
    \/ \E t \in Tasks : CreateDbEngine(t)
    \/ \E t \in Tasks : CreateDbCreateAll(t)

----------------------------------------------------------------------------
(* The flow-run store: tables flow_run and flow_run_state *)

Clients == {"c1"}
Flows == {"f1", "f2"}
Keys == {"NULL", "k1"}

\* the (flow_id, idempotency_key) pairs runs are requested with
RunArgs ==
    { [flow_id |-> "f1", idempotency_key |-> "k1"],
      [flow_id |-> "f2", idempotency_key |-> "k1"],
      [flow_id |-> "f1", idempotency_key |-> "NULL"] }

\* the index declared without unique=True
ix_flow_run__flow_id_idempotency_key ==
    [columns |-> {"flow_id", "idempotency_key"}, unique |-> FALSE]

\* sa.Index("uq_flow_run__flow_id_idempotency_key", FlowRun.flow_id,
\*          FlowRun.idempotency_key, unique=True)
uq_flow_run__flow_id_idempotency_key ==
    [columns |-> {"flow_id", "idempotency_key"}, unique |-> TRUE]

\* OrionDBInterface.flow_run_unique_upsert_columns
flow_run_unique_upsert_columns == {"flow_id", "idempotency_key"}

\* the rows of a table that a unique index makes a new row collide with;
\* a NULL in an indexed column collides with nothing
IndexConflicts(index, table, row) ==
    IF index.unique
    THEN {r \in DOMAIN table :
            \A c \in index.columns : row[c] # "NULL" /\ table[r][c] = row[c]}
    ELSE {}

\* the rows of flow_run_state the attach statements read for flow run r:
\* FlowRunState.flow_run_id == FlowRun.id and FlowRunState.id.in_(state ids)
MatchingStates(states, r, state_ids) ==
    {s \in DOMAIN states : states[s].flow_run_id = r /\ s \in state_ids}

\* the UPDATE ... FROM statement without FlowRun.id.in_(inserted_flow_run_ids)
postgres_set_state_id_unscoped(runs, states, r, inserted_flow_run_ids, state_ids) ==
    IF MatchingStates(states, r, state_ids) # {}
    THEN MatchingStates(states, r, state_ids)
    ELSE {runs[r].state_id}

\* AsyncPostgresConfiguration.set_state_id_on_inserted_flow_runs_statement:
\* the values UPDATE ... FROM can leave in flow run r's state_id;
\* a run that joins no state row is not updated, one that joins several is
\* updated from one of them
postgres_set_state_id(runs, states, r, inserted_flow_run_ids, state_ids) ==
    IF r \in inserted_flow_run_ids /\ MatchingStates(states, r, state_ids) # {}
    THEN MatchingStates(states, r, state_ids)
    ELSE {runs[r].state_id}

\* the correlated-subquery UPDATE without FlowRun.id.in_(inserted_flow_run_ids)
sqlite_set_state_id_unscoped(runs, states, r, inserted_flow_run_ids, state_ids) ==
    IF MatchingStates(states, r, state_ids) # {}
    THEN MatchingStates(states, r, state_ids)
    ELSE {0}

\* AioSqliteConfiguration.set_state_id_on_inserted_flow_runs_statement:
\* every run in the id list is updated to the scalar subquery's value, which
\* is one of the matching rows (LIMIT 1) or NULL when there is none
sqlite_set_state_id(runs, states, r, inserted_flow_run_ids, state_ids) ==
    IF r \in inserted_flow_run_ids
    THEN IF MatchingStates(states, r, state_ids) # {}
         THEN MatchingStates(states, r, state_ids)
         ELSE {0}
    ELSE {runs[r].state_id}

\* OrionDBInterface.set_state_id_on_inserted_flow_runs_statement
set_state_id_on_inserted_flow_runs_statement(runs, states, r, ids, state_ids) ==
    IF dialect = "postgresql"
    THEN postgres_set_state_id(runs, states, r, ids, state_ids)
    ELSE sqlite_set_state_id(runs, states, r, ids, state_ids)

\* every way to pick one value of choices[r] for each r of a set of rows
RECURSIVE Picks(_, _)
Picks(rows, choices) ==
    IF rows = {} THEN {EmptyMap}
    ELSE LET r == CHOOSE x \in rows : TRUE
         IN  {(r :> v) @@ g : v \in choices[r], g \in Picks(rows \ {r}, choices)}

\* session.execute(stmt): the tables flow_run the statement can produce
Execute(ids, state_ids) ==
    LET choices == [r \in DOMAIN flow_run |->
                      set_state_id_on_inserted_flow_runs_statement(
                          flow_run, flow_run_state, r, ids, state_ids)]
    IN  {[r \in DOMAIN flow_run |-> [flow_run[r] EXCEPT !.state_id = f[r]]] :
            f \in Picks(DOMAIN flow_run, choices)}

Op(kind, ids, state_ids, target) ==
    [kind |-> kind, ids |-> ids, states |-> state_ids, target |-> target]

IdleReq == [pc |-> "idle", ids |-> {}, states |-> {}, resolved |-> 0]

\* a run-creation request, first statement: INSERT INTO flow_run ... ON
\* CONFLICT (flow_run_unique_upsert_columns) DO NOTHING, with a fresh id;
\* the request resolves to the row that holds its (flow_id, idempotency_key)
RequestInsertRun(c, flow, key) ==
    /\ req[c].pc = "idle"
    /\ nextRun <= MaxRuns
    /\ LET row == [flow_id |-> flow, idempotency_key |-> key, state_id |-> 0]
           hit == IndexConflicts(uq_flow_run__flow_id_idempotency_key, flow_run, row)
           resolved == IF hit = {} THEN nextRun ELSE CHOOSE r \in hit : TRUE
       IN  /\ uq_flow_run__flow_id_idempotency_key.columns = flow_run_unique_upsert_columns
           /\ flow_run' = IF hit = {} THEN (nextRun :> row) @@ flow_run ELSE flow_run
           /\ req' = [req EXCEPT ![c] =
                        [pc |-> "states",
                         ids |-> IF hit = {} THEN {nextRun} ELSE {},
                         states |-> {},
                         resolved |-> resolved]]
           /\ lastOp' = Op("insert_run", {nextRun}, {}, resolved)
    /\ nextRun' = nextRun + 1
    /\ UNCHANGED flow_run_state
    /\ UNCHANGED <<cacheVars, taskVars, sideVars>>

\* second statement: one state row for each run the request inserted
RequestInsertStates(c) ==
    /\ req[c].pc = "states"
    /\ Len(flow_run_state) + Cardinality(req[c].ids) <= MaxStates
    /\ LET s == Len(flow_run_state) + 1
       IN  IF req[c].ids = {}
           THEN /\ req' = [req EXCEPT ![c].pc = "attach"]
                /\ UNCHANGED flow_run_state
           ELSE /\ flow_run_state' = Append(flow_run_state,
                     [flow_run_id |-> CHOOSE r \in req[c].ids : TRUE, timestamp |-> s])
                /\ req' = [req EXCEPT ![c].pc = "attach", ![c].states = {s}]
    /\ lastOp' = Op("insert_states", req[c].ids, {}, req[c].resolved)
    /\ UNCHANGED <<flow_run, nextRun>>
    /\ UNCHANGED <<cacheVars, taskVars, sideVars>>

\* third statement: the attach statement for the inserted runs and state rows
RequestAttach(c) ==
    /\ req[c].pc = "attach"
    /\ flow_run' \in Execute(req[c].ids, req[c].states)
    /\ req' = [req EXCEPT ![c] = IdleReq]
    /\ lastOp' = Op("request_attach", req[c].ids, req[c].states, req[c].resolved)
    /\ UNCHANGED <<flow_run_state, nextRun>>
    /\ UNCHANGED <<cacheVars, taskVars, sideVars>>

\* the single-run state transition: append a state row, advance state_id to it
StateTransition(r) ==
    /\ r \in DOMAIN flow_run
    /\ flow_run[r].state_id # 0
    /\ Len(flow_run_state) < MaxStates
    /\ LET s == Len(flow_run_state) + 1
       IN  /\ flow_run_state' = Append(flow_run_state,
                                       [flow_run_id |-> r, timestamp |-> s])
           /\ flow_run' = [flow_run EXCEPT ![r].state_id = s]
    /\ lastOp' = Op("transition", {r}, {}, r)
    /\ UNCHANGED <<nextRun, req>>
    /\ UNCHANGED <<cacheVars, taskVars, sideVars>>

\* a caller executes set_state_id_on_inserted_flow_runs_statement(ids, rows)
ExecAttach(ids, state_ids) ==
    /\ flow_run' \in Execute(ids, state_ids)
    /\ lastOp' = Op("attach", ids, state_ids, 0)
    /\ UNCHANGED <<flow_run_state, nextRun, req>>
    /\ UNCHANGED <<cacheVars, taskVars, sideVars>>

InitStore ==
    /\ flow_run = EmptyMap
    /\ flow_run_state = <<>>
    /\ nextRun = 1
    /\ req = [c \in Clients |-> IdleReq]
    /\ lastOp = Op("none", {}, {}, 0)

NextStore ==
    \/ \E c \in Clients, a \in RunArgs :
            RequestInsertRun(c, a.flow_id, a.idempotency_key)
    \/ \E c \in Clients : RequestInsertStates(c)
    \/ \E c \in Clients : RequestAttach(c)
    \/ \E r \in 1..MaxRuns : StateTransition(r)
    \/ \E ids \in SUBSET (DOMAIN flow_run), st \in SUBSET (DOMAIN flow_run_state) :
            ExecAttach(ids, st)

----------------------------------------------------------------------------
(* prefect.task: Task and Parameter.  An object is the mapping of its       *)
(* attributes; None is "None", and a value that is falsy in Python is ""    *)

Absent == [cls |-> "none"]

NoCall == [op |-> "none"]

Names == {"None", "", "x"}
Classes == {"Task", "MyTask"}
MaxRetries == {0, 2}
RetryDelays == {"1m", "5m"}
TaskTimeouts == {"None", "10s"}
Triggers == {"None", "all_successful", "any_failed"}
Defaults == {"None", "0", "d"}

\* bool(value) for the values a name or a trigger takes
Truthy(v) == v \notin {"None", ""}

\* Task.__init__, the attributes it assigns, with group, tags and secrets not
\* given and none in the context
Task__init__(cls, name, description, max_retries, retry_delay, timeout, trigger) ==
    [cls |-> cls,
     name |-> IF Truthy(name) THEN name ELSE cls,
     description |-> description,
     group |-> "",
     tags |-> {},
     max_retries |-> max_retries,
     retry_delay |-> retry_delay,
     timeout |-> timeout,
     trigger |-> IF Truthy(trigger) THEN trigger ELSE "all_successful",
     secrets |-> "None"]

\* Parameter.__init__
Parameter__init__(name, default, required) ==
    [required |-> IF default # "None" THEN FALSE ELSE required,
     default |-> default]
    @@ Task__init__("Parameter", name, "None", 0, "1m", "None", "None")

\* Task.serialize
Task_serialize(self) ==
    [name |-> self.name,
     description |-> self.description,
     max_retries |-> self.max_retries,
     retry_delay |-> self.retry_delay,
     timeout |-> self.timeout,
     trigger |-> self.trigger]

\* Parameter.serialize
Parameter_serialize(self) ==
    [required |-> self.required, default |-> self.default] @@ Task_serialize(self)

\* serialize() of the object's class
serialize(self) ==
    IF self.cls = "Parameter" THEN Parameter_serialize(self) ELSE Task_serialize(self)

\* serialized.pop('qualified_name')
Pop(m, k) == [x \in DOMAIN m \ {k} |-> m[x]]

IsParameterMapping(m) ==
    "qualified_name" \in DOMAIN m /\ m.qualified_name = "prefect.task.Parameter"

\* Task.deserialize without the trigger keyword
Task_from_mapping_default_trigger(m) ==
    Task__init__("Task", m.name, m.description, m.max_retries, m.retry_delay,
                 m.timeout, "None")

\* Task.deserialize, the construction: Task(name=serialized['name'], ...)
Task_from_mapping(m) ==
    Task__init__("Task", m.name, m.description, m.max_retries, m.retry_delay,
                 m.timeout, m.trigger)

\* Parameter.deserialize on a mapping without the discriminator:
\* super().deserialize builds a Task, then required and default are assigned
Parameter_set_fields(m) ==
    [required |-> m.required, default |-> m.default] @@ Task_from_mapping(m)

\* the mapping after a deserialize call: the discriminator is popped
AfterDeserialize(m) ==
    IF IsParameterMapping(m) THEN Pop(m, "qualified_name") ELSE m

\* Task.deserialize(serialized); KeyError when the discriminator sends a
\* mapping without 'required' or 'default' to Parameter.deserialize
Task_deserialize(m) ==
    IF IsParameterMapping(m)
    THEN IF {"required", "default"} \subseteq DOMAIN m
         THEN Parameter_set_fields(Pop(m, "qualified_name"))
         ELSE Absent
    ELSE Task_from_mapping(m)

\* Parameter.deserialize(serialized)
Parameter_deserialize(m) ==
    IF {"required", "default"} \subseteq DOMAIN m
    THEN Parameter_set_fields(AfterDeserialize(m))
    ELSE Absent

\* the mappings that arrive from storage
Mappings ==
    LET base == [name |-> "x", description |-> "None", max_retries |-> 0,
                 retry_delay |-> "1m", timeout |-> "None", trigger |-> "any_failed"]
        params == {[required |-> r, default |-> d] @@ base :
                      r \in BOOLEAN, d \in {"None", "d"}}
        plain == params \cup {base}
    IN  plain \cup {[qualified_name |-> "prefect.task.Parameter"] @@ m : m \in plain}

\* the values of prefect.context.get('flow'): no flow context, or the flow of
\* the enclosing `with` block
ContextFlows == {"None", "flow"}

\* the values of prefect.context.get('parameters', {}) runs are made with
ParameterMappings ==
    {EmptyMap, ("x" :> "None"), ("x" :> "v"), ("Parameter" :> "v")}

\* prefect.context during an operation
Context(flow, parameters) == [flow |-> flow, parameters |-> parameters]

NoResult == [on |-> "none", kind |-> "none", value |-> "None", message |-> ""]

\* `flow = prefect.context.get('flow')`, `if flow: flow.add_task(self)`:
\* the add_task calls an operation makes, each with the attributes self has
\* at the call
flow_add_task(flow, self) ==
    IF flow # "None" THEN <<self>> ELSE <<>>

\* self as Task.__init__ hands it to flow.add_task, its last statement
Task_registered(cls, name, description, max_retries, retry_delay, timeout, trigger) ==
    Task__init__(cls, name, description, max_retries, retry_delay, timeout, trigger)

\* a Parameter.__init__ that calls super().__init__ before it assigns
\* required and default
Parameter_registered_early(name, default, required) ==
    Task__init__("Parameter", name, "None", 0, "1m", "None", "None")

\* self as Parameter.__init__ hands it to flow.add_task: required and default
\* are assigned before super().__init__(name=name)
Parameter_registered(name, default, required) ==
    Parameter__init__(name, default, required)

\* Task.run
Task_run(self) ==
    [kind |-> "raise", value |-> "NotImplementedError", message |-> ""]

\* Parameter.run with `params.get(self.name) or self.default`
Parameter_run_or_default(self, params) ==
    IF self.required /\ self.name \notin DOMAIN params
    THEN [kind |-> "raise", value |-> "FAIL", message |-> self.name]
    ELSE [kind |-> "return",
          value |-> IF self.name \in DOMAIN params /\ params[self.name] # "None"
                    THEN params[self.name]
                    ELSE self.default,
          message |-> ""]

\* Parameter.run without the check of self.required
Parameter_run_unchecked(self, params) ==
    [kind |-> "return",
     value |-> IF self.name \in DOMAIN params THEN params[self.name] ELSE self.default,
     message |-> ""]

\* Parameter.run; the message of FAIL is formatted with self.name
Parameter_run(self, params) ==
    IF self.required /\ self.name \notin DOMAIN params
    THEN [kind |-> "raise", value |-> "FAIL", message |-> self.name]
    ELSE [kind |-> "return",
          value |-> IF self.name \in DOMAIN params THEN params[self.name] ELSE self.default,
          message |-> ""]

\* run() of the object's class
run(self, params) ==
    IF self.cls = "Parameter" THEN Parameter_run(self, params) ELSE Task_run(self)

ConstructTask(cls, name, max_retries, retry_delay, timeout, trigger, flow) ==
    /\ task' = Task__init__(cls, name, "None", max_retries, retry_delay, timeout, trigger)
    /\ add_task' = flow_add_task(flow, Task_registered(cls, name, "None", max_retries,
                                                      retry_delay, timeout, trigger))
    /\ context' = Context(flow, EmptyMap)
    /\ serialized' = Absent
    /\ deserialized' = Absent
    /\ raised' = "none"
    /\ result' = NoResult
    /\ UNCHANGED <<cacheVars, storeVars, bindVars, sideVars>>

ConstructParameter(name, default, required, flow) ==
    /\ task' = Parameter__init__(name, default, required)
    /\ add_task' = flow_add_task(flow, Parameter_registered(name, default, required))
    /\ context' = Context(flow, EmptyMap)
    /\ serialized' = Absent
    /\ deserialized' = Absent
    /\ raised' = "none"
    /\ result' = NoResult
    /\ UNCHANGED <<cacheVars, storeVars, bindVars, sideVars>>

Serialize ==
    /\ task # Absent
    /\ serialized' = serialize(task)
    /\ deserialized' = Absent
    /\ raised' = "none"
    /\ result' = NoResult
    /\ add_task' = <<>>
    /\ UNCHANGED <<task, context>>
    /\ UNCHANGED <<cacheVars, storeVars, bindVars, sideVars>>

\* a mapping that no object of this process produced
ReceiveMapping(m) ==
    /\ task' = Absent
    /\ serialized' = m
    /\ deserialized' = Absent
    /\ raised' = "none"
    /\ result' = NoResult
    /\ add_task' = <<>>
    /\ UNCHANGED context
    /\ UNCHANGED <<cacheVars, storeVars, bindVars, sideVars>>

\* Task.deserialize(serialized); the Task it constructs registers itself
\* with the flow of the context, before Parameter.deserialize reads
\* serialized['required']
DeserializeTask(flow) ==
    /\ serialized # Absent
    /\ deserialized' = Task_deserialize(serialized)
    /\ raised' = IF Task_deserialize(serialized) = Absent THEN "KeyError" ELSE "none"
    /\ serialized' = AfterDeserialize(serialized)
    /\ add_task' = flow_add_task(flow, Task_from_mapping(AfterDeserialize(serialized)))
    /\ context' = Context(flow, EmptyMap)
    /\ result' = NoResult
    /\ UNCHANGED task
    /\ UNCHANGED <<cacheVars, storeVars, bindVars, sideVars>>

\* Parameter.deserialize(serialized)
DeserializeParameter(flow) ==
    /\ serialized # Absent
    /\ deserialized' = Parameter_deserialize(serialized)
    /\ raised' = IF Parameter_deserialize(serialized) = Absent THEN "KeyError" ELSE "none"
    /\ serialized' = AfterDeserialize(serialized)
    /\ add_task' = flow_add_task(flow, Task_from_mapping(AfterDeserialize(serialized)))
    /\ context' = Context(flow, EmptyMap)
    /\ result' = NoResult
    /\ UNCHANGED task
    /\ UNCHANGED <<cacheVars, storeVars, bindVars, sideVars>>

\* the runner calls run() of the constructed or of the deserialized object
\* under the parameters of the flow run
Run(on, params) ==
    /\ on \in {"task", "deserialized"}
    /\ LET self == IF on = "task" THEN task ELSE deserialized
       IN  /\ self # Absent
           /\ result' = [on |-> on] @@ run(self, params)
           /\ raised' = IF run(self, params).kind = "raise"
                        THEN run(self, params).value
                        ELSE "none"
    /\ context' = Context("None", params)
    /\ add_task' = <<>>
    /\ UNCHANGED <<task, serialized, deserialized>>
    /\ UNCHANGED <<cacheVars, storeVars, bindVars, sideVars>>

InitTask ==
    /\ task = Absent
    /\ serialized = Absent
    /\ deserialized = Absent
    /\ raised = "none"
    /\ context = Context("None", EmptyMap)
    /\ add_task = <<>>
    /\ result = NoResult
    /\ call = NoCall
    /\ dependencies = [calls |-> 0, flow |-> "None", keyword_results |-> EmptyMap]

NextTask ==
    \/ \E c \in Classes, n \in Names, mr \in MaxRetries, rd \in RetryDelays,
          to \in TaskTimeouts, tr \in Triggers, f \in ContextFlows :
            ConstructTask(c, n, mr, rd, to, tr, f)
    \/ \E n \in Names, d \in Defaults, r \in BOOLEAN, f \in ContextFlows :
            ConstructParameter(n, d, r, f)
    \/ Serialize
    \/ \E m \in Mappings : ReceiveMapping(m)
    \/ \E f \in ContextFlows : DeserializeTask(f)
    \/ \E f \in ContextFlows : DeserializeParameter(f)
    \/ \E on \in {"task", "deserialized"}, p \in ParameterMappings : Run(on, p)

----------------------------------------------------------------------------
(* Task.inputs and Task.__call__: a run() signature is the sequence of its  *)
(* named parameters (self left out, as inspect.signature of the bound       *)
(* method does), those that have a default, and its **capture or "None"     *)

\* run(self), run(self, a, b, **kwargs) and run(self, a, b=...)
Signatures ==
    { [params |-> <<>>, defaults |-> {}, varkw |-> "None"],
      [params |-> <<"a", "b">>, defaults |-> {}, varkw |-> "kwargs"],
      [params |-> <<"a", "b">>, defaults |-> {"b"}, varkw |-> "None"] }

\* the number of positional arguments and the names of the named arguments
\* of a call
ArgCounts == 0..3
ArgNames == {"a", "b", "c"}

\* an argument as supplied at the call site
Value(v) == [kind |-> "value", v |-> v]

\* signature.bind_partial(*args, **kwargs): parameters may stay unbound
signature_bind_partial(sig, n, kw) ==
    LET names == {sig.params[i] : i \in 1..Len(sig.params)}
        positional == {sig.params[i] : i \in 1..Len(sig.params) \cap 1..n}
        extra == kw \ names
        captured == IF extra # {} /\ sig.varkw # "None" THEN {sig.varkw} ELSE {}
    IN  [ok |-> /\ n <= Len(sig.params)
                /\ kw \cap positional = {}
                /\ extra # {} => sig.varkw # "None",
         arguments |->
            [k \in positional \cup (kw \cap names) \cup captured |->
                IF k \in captured
                THEN [kind |-> "dict", items |-> [x \in extra |-> Value(x)]]
                ELSE Value(IF k \in positional THEN "arg" ELSE k)]]

\* signature.bind(*args, **kwargs): TypeError (ok is FALSE) on too many
\* positional arguments, on a parameter given twice, on a named argument
\* that no parameter takes, and on a parameter without default left unbound;
\* arguments holds the bound parameters, and the ** capture when it is not
\* empty, as one entry whose value is the mapping of the captured arguments
signature_bind(sig, n, kw) ==
    LET names == {sig.params[i] : i \in 1..Len(sig.params)}
        positional == {sig.params[i] : i \in 1..Len(sig.params) \cap 1..n}
        extra == kw \ names
        captured == IF extra # {} /\ sig.varkw # "None" THEN {sig.varkw} ELSE {}
    IN  [ok |-> /\ n <= Len(sig.params)
                /\ kw \cap positional = {}
                /\ extra # {} => sig.varkw # "None"
                /\ \A p \in names \ (positional \cup kw) : p \in sig.defaults,
         arguments |->
            [k \in positional \cup (kw \cap names) \cup captured |->
                IF k \in captured
                THEN [kind |-> "dict", items |-> [x \in extra |-> Value(x)]]
                ELSE Value(IF k \in positional THEN "arg" ELSE k)]]

\* var_kw_arg = inspect.getfullargspec(self.run).varkw
\* callargs.update(callargs.pop(var_kw_arg, {}))
expand(callargs, var_kw_arg) ==
    LET popped == IF var_kw_arg \in DOMAIN callargs
                  THEN callargs[var_kw_arg].items
                  ELSE EmptyMap
    IN  [k \in (DOMAIN callargs \ {var_kw_arg}) \cup DOMAIN popped |->
            IF k \in DOMAIN popped THEN popped[k] ELSE callargs[k]]

\* Task.inputs: the keys of inspect.signature(self.run).parameters, the
\* ** capture among them
inputs(sig) ==
    IF sig.varkw # "None" THEN Append(sig.params, sig.varkw) ELSE sig.params

\* prefect.context.get('flow', prefect.flow.Flow())
context_flow(flow) == IF flow # "None" THEN flow ELSE "Flow()"

\* task.inputs() on a task whose run() has the signature sig
InputsCall(sig) ==
    /\ call' = [op |-> "inputs", signature |-> sig, nargs |-> 0, kwargs |-> {},
                returned |-> inputs(sig)]
    /\ raised' = "none"
    /\ UNCHANGED <<task, serialized, deserialized, context, add_task, result,
                   dependencies>>
    /\ UNCHANGED <<cacheVars, storeVars, sideVars>>

\* task(*args, **kwargs) with n positional arguments and the named arguments
\* kw, under the context's flow
Call(sig, n, kw, flow) ==
    LET bound == signature_bind(sig, n, kw)
    IN  /\ bound.ok => dependencies.calls < MaxDependencies
        /\ call' = [op |-> "__call__", signature |-> sig, nargs |-> n, kwargs |-> kw,
                    returned |-> <<>>]
        /\ raised' = IF bound.ok THEN "none" ELSE "TypeError"
        /\ dependencies' =
              IF bound.ok
              THEN [calls |-> dependencies.calls + 1,
                    flow |-> context_flow(flow),
                    keyword_results |-> expand(bound.arguments, sig.varkw)]
              ELSE dependencies
        /\ context' = Context(flow, EmptyMap)
        /\ UNCHANGED <<task, serialized, deserialized, add_task, result>>
        /\ UNCHANGED <<cacheVars, storeVars, sideVars>>

NextBind ==
    \/ \E sig \in Signatures : InputsCall(sig)
    \/ \E sig \in Signatures, n \in ArgCounts, kw \in SUBSET ArgNames,
          f \in ContextFlows : Call(sig, n, kw, f)

----------------------------------------------------------------------------
(* prefect.runtime.task_run: a Python value is a record of its type and its *)
(* content; TaskRunContext.get() is <<>> for None and <<context>> otherwise  *)

None == [type |-> "NoneType"]
Str(chars) == [type |-> "str", chars |-> chars]
UUID(hex) == [type |-> "UUID", hex |-> hex]
List(items) == [type |-> "list", items |-> items]
Dict(entries) == [type |-> "dict", entries |-> entries]

\* str(task_run.id)
str(uuid) == Str(uuid.hex)

\* the task run contexts a task run can be in
TaskRunContexts ==
    { [task_run |-> [id |-> UUID(i), name |-> Str(n), tags |-> List(t)],
       parameters |-> Dict(p)] :
        i \in {"u1", "u2"}, n \in {"n1", "n2"}, t \in {<<>>, <<"t1">>},
        p \in {EmptyMap, ("x" :> "1")} }

\* the names of __all__ and names outside it that the module does not define
AttrNames == {"id", "tags", "name", "parameters", "flow_run_id", "state"}

get_id(ctx) ==
    IF ctx # <<>> THEN str(ctx[1].task_run.id) ELSE None

\* a get_tags that falls off its end when there is no context, as get_id does
get_tags_implicit(ctx) ==
    IF ctx # <<>> THEN ctx[1].task_run.tags ELSE None

get_tags(ctx) ==
    IF ctx = <<>> THEN List(<<>>) ELSE ctx[1].task_run.tags

get_name(ctx) ==
    IF ctx = <<>> THEN None ELSE ctx[1].task_run.name

get_parameters(ctx) ==
    IF ctx # <<>> THEN ctx[1].parameters ELSE Dict(EmptyMap)

\* the keys of FIELDS
FIELDS == {"id", "tags", "name", "parameters"}

\* FIELDS.get(name) called: func()
FIELDS_call(name, ctx) ==
    CASE name = "id" -> get_id(ctx)
      [] name = "tags" -> get_tags(ctx)
      [] name = "name" -> get_name(ctx)
      [] name = "parameters" -> get_parameters(ctx)

\* the module's __getattr__(name) under the context ctx
module__getattr__(name, ctx) ==
    IF name \notin FIELDS
    THEN [name |-> name, ctx |-> ctx, raised |-> "AttributeError", value |-> None]
    ELSE [name |-> name, ctx |-> ctx, raised |-> "none", value |-> FIELDS_call(name, ctx)]

NotAccessed == [name |-> "none", ctx |-> <<>>, raised |-> "none", value |-> None]

\* a task run starts: the engine enters its TaskRunContext
EnterContext(ctx) ==
    /\ task_run_ctx = <<>>
    /\ task_run_ctx' = <<ctx>>
    /\ UNCHANGED accessed
    /\ UNCHANGED <<cacheVars, storeVars, taskVars, migrationVars>>

\* the task run ends
ExitContext ==
    /\ task_run_ctx # <<>>
    /\ task_run_ctx' = <<>>
    /\ UNCHANGED accessed
    /\ UNCHANGED <<cacheVars, storeVars, taskVars, migrationVars>>

\* prefect.runtime.task_run.<name>, or `from prefect.runtime.task_run import <name>`
GetAttr(name) ==
    /\ accessed' = module__getattr__(name, task_run_ctx)
    /\ UNCHANGED task_run_ctx
    /\ UNCHANGED <<cacheVars, storeVars, taskVars, migrationVars>>

InitRuntime ==
    /\ task_run_ctx = <<>>
    /\ accessed = NotAccessed

NextRuntime ==
    \/ \E ctx \in TaskRunContexts : EnterContext(ctx)
    \/ ExitContext
    \/ \E name \in AttrNames : GetAttr(name)

----------------------------------------------------------------------------
(* Migration c0a9e054fd84 of the sqlite schema: indexes on artifact_collection *)

\* the indexes artifact_collection can have: the three of this revision and
\* one that is none of its business
ArtifactCollectionIndexes ==
    {"ix_artifact_collection__latest_id", "ix_artifact_collection__updated",
     "uq_artifact_collection__key", "other_index"}

\* the create_index operations of upgrade(), in order
upgrade_ops ==
    <<"ix_artifact_collection__latest_id", "ix_artifact_collection__updated",
      "uq_artifact_collection__key">>

\* a downgrade() that leaves ix_artifact_collection__latest_id in place
downgrade_ops_two ==
    <<"uq_artifact_collection__key", "ix_artifact_collection__updated">>

\* the drop_index operations of downgrade(), in order
downgrade_ops ==
    <<"uq_artifact_collection__key", "ix_artifact_collection__updated",
      "ix_artifact_collection__latest_id">>

\* CREATE INDEX name: an error when an index of that name exists
create_index(ix, name) == [ok |-> name \notin ix, indexes |-> ix \cup {name}]

\* DROP INDEX name: an error when no index of that name exists
drop_index(ix, name) == [ok |-> name \in ix, indexes |-> ix \ {name}]

\* the operations of a batch_alter_table block, run in order when the block
\* ends, up to the first that fails
RECURSIVE ApplyBatch(_, _, _)
ApplyBatch(fn, ix, ops) ==
    IF ops = <<>> THEN [ok |-> TRUE, indexes |-> ix]
    ELSE LET r == IF fn = "upgrade"
                  THEN create_index(ix, Head(ops))
                  ELSE drop_index(ix, Head(ops))
         IN  IF r.ok THEN ApplyBatch(fn, r.indexes, Tail(ops))
             ELSE [ok |-> FALSE, indexes |-> ix]

Ops(fn) == IF fn = "upgrade" THEN upgrade_ops ELSE downgrade_ops

NoMigration ==
    [fn |-> "none", pc |-> "done", start |-> {},
     prev_fn |-> "none", prev_pc |-> "done", prev_start |-> {}]

\* upgrade() or downgrade() is called: op.execute("PRAGMA foreign_keys=OFF")
PragmaOff(fn) ==
    /\ migration.pc \in {"done", "failed"}
    /\ foreign_keys' = "OFF"
    /\ migration' = [fn |-> fn, pc |-> "batch", start |-> indexes,
                     prev_fn |-> migration.fn, prev_pc |-> migration.pc,
                     prev_start |-> migration.start]
    /\ UNCHANGED indexes
    /\ UNCHANGED <<cacheVars, storeVars, taskVars, runtimeVars>>

\* the batch_alter_table block; when an operation fails the function ends
\* with the error, and the operations before it stay or are rolled back
\* with the transaction, as the environment runs migrations
BatchAlterTable ==
    /\ migration.pc = "batch"
    /\ LET r == ApplyBatch(migration.fn, indexes, Ops(migration.fn))
       IN  IF r.ok
           THEN /\ indexes' = r.indexes
                /\ migration' = [migration EXCEPT !.pc = "pragma_on"]
           ELSE /\ indexes' \in {r.indexes, indexes}
                /\ migration' = [migration EXCEPT !.pc = "failed"]
    /\ UNCHANGED foreign_keys
    /\ UNCHANGED <<cacheVars, storeVars, taskVars, runtimeVars>>

\* op.execute("PRAGMA foreign_keys=ON"), the last statement
PragmaOn ==
    /\ migration.pc = "pragma_on"
    /\ foreign_keys' = "ON"
    /\ migration' = [migration EXCEPT !.pc = "done"]
    /\ UNCHANGED indexes
    /\ UNCHANGED <<cacheVars, storeVars, taskVars, runtimeVars>>

\* the schema states the migration can meet; setup_sqlite has switched
\* foreign keys on for the connection
InitMigration ==
    /\ indexes \in SUBSET ArtifactCollectionIndexes
    /\ foreign_keys = "ON"
    /\ migration = NoMigration

NextMigration ==
    \/ \E fn \in {"upgrade", "downgrade"} : PragmaOff(fn)
    \/ BatchAlterTable
    \/ PragmaOn

----------------------------------------------------------------------------
(* Specifications *)

\* the state after import: empty caches, empty tables, no task declared, no
\* task run under way, artifact_collection without indexes
Init ==
    /\ InitCache
    /\ InitStore
    /\ InitTask
    /\ InitRuntime
    /\ InitMigration
    /\ indexes = {}

\* the caches under concurrent callers
SpecCache == Init /\ [][NextCache]_vars

\* the Database Interface over either dialect
SpecInterface == Init /\ [][NextInterface]_vars

\* the store under either dialect; the caches stay as imported
StoreInit == Init /\ settings = [url |-> "old.db", echo |-> FALSE]

SpecStore == StoreInit /\ [][NextStore]_vars

\* task declaration and serialization; caches and store stay as imported
TaskInit == StoreInit /\ dialect = "sqlite"

SpecTask == TaskInit /\ [][NextTask]_vars

\* binding the arguments of task calls; caches and store stay as imported
SpecBind == TaskInit /\ [][NextBind]_vars

\* attribute access on prefect.runtime.task_run inside and outside task runs
SpecRuntime == TaskInit /\ [][NextRuntime]_vars

\* the migration run against every set of indexes
MigrationInit ==
    /\ InitCache
    /\ InitStore
    /\ InitTask
    /\ InitRuntime
    /\ InitMigration
    /\ settings = [url |-> "old.db", echo |-> FALSE]
    /\ dialect = "sqlite"

SpecMigration == MigrationInit /\ [][NextMigration]_vars

----------------------------------------------------------------------------
(* Properties of the caches *)

\* C1: a miss constructs one engine for its key and installs it before any
\* other caller on the key proceeds: no key ever has two different engines
\* installed under it by two concurrent misses.
C1_OneInstallPerKey ==
    \A a \in installs, b \in installs : a.key = b.key => a.eng = b.eng

\* C2: calls with equal cache keys return the identical instance: all engine()
\* calls with equal (loop, connection_url, echo, timeout), and all
\* session_factory() calls with equal (loop, bind), whatever the interleaving.
C2_SameKeySameInstance ==
    /\ \A a \in returned, b \in returned : a.key = b.key => a.eng = b.eng
    /\ \A a \in returnedSF, b \in returnedSF : a.key = b.key => a.sf = b.sf

\* C3: no engine and no session factory is returned to callers on two
\* different event loops, and each cached instance sits under keys of one
\* loop only, also when connection_url, echo and timeout are identical.
C3_NeverSharedAcrossLoops ==
    /\ \A a \in returned, b \in returned : a.eng = b.eng => a.loop = b.loop
    /\ \A a \in returnedSF, b \in returnedSF : a.sf = b.sf => a.loop = b.loop
    /\ \A a \in returned : a.key.loop = a.loop
    /\ \A k1 \in DOMAIN ENGINES, k2 \in DOMAIN ENGINES :
          ENGINES[k1] = ENGINES[k2] => k1.loop = k2.loop
    /\ \A k1 \in DOMAIN SESSION_FACTORIES, k2 \in DOMAIN SESSION_FACTORIES :
          SESSION_FACTORIES[k1] = SESSION_FACTORIES[k2] => k1.loop = k2.loop

\* callers on two loops have been handed engines for identical parameters
C3_Witness ==
    \E a \in returned, b \in returned :
        /\ a.loop # b.loop
        /\ a.key.url = b.key.url
        /\ a.key.echo = b.key.echo
        /\ a.key.timeout = b.key.timeout
        /\ a.eng # b.eng

----------------------------------------------------------------------------
(* Properties of the attach statement and of run creation *)

AttachKinds == {"attach", "request_attach"}

\* C4: executing the attach statement, in either dialect, leaves the state_id
\* of every flow run whose id is not in inserted_flow_run_ids unchanged.
C4_OtherRunsUntouched ==
    [][lastOp'.kind \in AttachKinds =>
          \A r \in DOMAIN flow_run \ lastOp'.ids :
              /\ r \in DOMAIN flow_run'
              /\ flow_run'[r].state_id = flow_run[r].state_id]_vars

\* the statement has set a listed run, and a run outside the id list has a
\* state row among the given ones yet points elsewhere
C4_Witness ==
    /\ lastOp.kind \in AttachKinds
    /\ \E r \in lastOp.ids \cap DOMAIN flow_run : flow_run[r].state_id \in lastOp.states
    /\ \E r \in DOMAIN flow_run \ lastOp.ids :
          \E s \in lastOp.states \cap DOMAIN flow_run_state :
              /\ flow_run_state[s].flow_run_id = r
              /\ flow_run[r].state_id # s

\* C5: for every table content and every (run ids, state rows), the sqlite
\* statement and the postgres statement leave the same state_id in every flow
\* run: what the executed statement produced is a result of both statements.
C5_DialectsAgree ==
    [][lastOp'.kind \in AttachKinds =>
          \A r \in DOMAIN flow_run :
              /\ flow_run'[r].state_id \in
                    postgres_set_state_id(flow_run, flow_run_state, r,
                                          lastOp'.ids, lastOp'.states)
              /\ flow_run'[r].state_id \in
                    sqlite_set_state_id(flow_run, flow_run_state, r,
                                        lastOp'.ids, lastOp'.states)]_vars

\* C6: the current-state pointer of a run never moves to an older state row
\* and never becomes empty once set.
C6_PointerNeverBackwards ==
    [][\A r \in DOMAIN flow_run :
          flow_run[r].state_id # 0 =>
              /\ flow_run'[r].state_id # 0
              /\ flow_run_state'[flow_run'[r].state_id].timestamp >=
                    flow_run_state[flow_run[r].state_id].timestamp]_vars

C8_DuplicateKeepsState ==
    [][\A c \in Clients :
          (/\ req'[c] # req[c]
           /\ req'[c].ids = {}
           /\ req[c].ids = {}
           /\ lastOp'.target \in DOMAIN flow_run) =>
              /\ lastOp'.target \in DOMAIN flow_run'
              /\ flow_run'[lastOp'.target].state_id =
                    flow_run[lastOp'.target].state_id]_vars

\* the attach statement of a duplicate request has run against a run that
\* has a current state
C8_Witness ==
    /\ lastOp.kind = "request_attach"
    /\ lastOp.ids = {}
    /\ lastOp.target \in DOMAIN flow_run
    /\ flow_run[lastOp.target].state_id # 0

----------------------------------------------------------------------------
(* Properties of Task and Parameter *)

Objects == {task, deserialized}

\* C9: every Parameter obtained by construction or by Parameter.deserialize
\* of a serialized mapping has required = False when its default is not None.
C9_DefaultOverridesRequired ==
    \A p \in Objects :
        ("default" \in DOMAIN p /\ p.default # "None") => p.required = FALSE

RoundTripFields == {"name", "max_retries", "retry_delay", "timeout", "trigger"}

\* C10: Task.deserialize(t.serialize()) has the name, max_retries,
\* retry_delay, timeout and trigger of t, for every constructed t.
C10_RoundTrip ==
    (task # Absent /\ deserialized # Absent) =>
        \A f \in RoundTripFields : deserialized[f] = task[f]

\* a task built with no name and a trigger of its own has gone the round trip
C10_Witness ==
    /\ task # Absent
    /\ deserialized # Absent
    /\ task.cls = "MyTask"
    /\ task.name = "MyTask"
    /\ task.trigger = "any_failed"
    /\ task.max_retries = 2

\* C11: deserializing the serialized form of a Parameter gives a Parameter,
\* not a plain Task, with the name, required and default of the mapping.
C11_DeserializedIsParameter ==
    (deserialized # Absent /\ "required" \in DOMAIN deserialized) =>
        /\ deserialized.cls = "Parameter"
        /\ deserialized.name = serialized.name
        /\ deserialized.required = serialized.required
        /\ deserialized.default = serialized.default

\* the object the last run() was called on
Ran == IF result.on = "task" THEN task ELSE deserialized

\* C12: Parameter.run() raises FAIL when the parameter's name is absent from
\* the parameter mapping and required is true; otherwise it returns the
\* supplied value when the name is present, also when that value is None, and
\* default when the name is absent.
C12_ParameterRun ==
    (result.on # "none" /\ Ran.cls = "Parameter") =>
        IF Ran.name \notin DOMAIN context.parameters
        THEN IF Ran.required
             THEN result.kind = "raise" /\ result.value = "FAIL"
             ELSE result.kind = "return" /\ result.value = Ran.default
        ELSE /\ result.kind = "return"
             /\ result.value = context.parameters[Ran.name]

\* a Parameter with a default has run under a mapping that supplies None
C12_Witness ==
    /\ result.on = "task"
    /\ task.cls = "Parameter"
    /\ task.default = "d"
    /\ task.name \in DOMAIN context.parameters
    /\ context.parameters[task.name] = "None"
    /\ result.kind = "return"
    /\ result.value = "None"

\* a constructed Parameter without a default has run under a mapping that
\* lacks its name
RanWithoutValue ==
    /\ result.on = "task"
    /\ task.cls = "Parameter"
    /\ task.default = "None"
    /\ task.name \notin DOMAIN context.parameters

\* C13 as stated: a Parameter with no default whose name is not in the
\* parameter mapping raises FAIL naming the parameter, however it was
\* constructed, required=False included.
C13_NoDefaultAlwaysFails ==
    RanWithoutValue =>
        /\ result.kind = "raise"
        /\ result.value = "FAIL"
        /\ result.message = task.name

\* C13: a Parameter with no default and required true whose name is not in
\* the parameter mapping raises FAIL with a message naming the parameter; one
\* constructed with required=False returns its default, None.
C13_RequiredNoDefaultFails ==
    RanWithoutValue =>
        IF task.required
        THEN /\ result.kind = "raise"
             /\ result.value = "FAIL"
             /\ result.message = task.name
        ELSE /\ result.kind = "return"
             /\ result.value = "None"

\* a required Parameter constructed without a name of its own has failed
C13_Witness ==
    /\ RanWithoutValue
    /\ task.required
    /\ task.name = "Parameter"
    /\ result.value = "FAIL"
    /\ result.message = "Parameter"

----------------------------------------------------------------------------
(* Properties of Task.inputs and Task.__call__ *)

\* a parameter of run() without a default that the call c leaves unbound
MissingRequired(c) ==
    \E i \in 1..Len(c.signature.params) :
        /\ i > c.nargs
        /\ c.signature.params[i] \notin c.kwargs
        /\ c.signature.params[i] \notin c.signature.defaults

\* an argument of the call c that no parameter of run() takes
ExtraUnbound(c) ==
    \/ c.nargs > Len(c.signature.params)
    \/ /\ c.signature.varkw = "None"
       /\ \E k \in c.kwargs :
             \A i \in 1..Len(c.signature.params) : c.signature.params[i] # k

ABKwargs == [params |-> <<"a", "b">>, defaults |-> {}, varkw |-> "kwargs"]

\* C17: for run(self, a, b, **kwargs), inputs() returns ("a", "b"), and a call
\* with extra named arguments forwards a mapping whose keys are a, b and the
\* extra names, each a supplied value, with no entry for the capture itself.
C17_InputsAndForwarding ==
    /\ (call.op = "inputs" /\ call.signature = ABKwargs) =>
          call.returned = <<"a", "b">>
    /\ (call.op = "__call__" /\ call.signature = ABKwargs /\ raised = "none") =>
          /\ DOMAIN dependencies.keyword_results = {"a", "b"} \cup call.kwargs
          /\ \A k \in DOMAIN dependencies.keyword_results :
                dependencies.keyword_results[k].kind = "value"

----------------------------------------------------------------------------
(* Further properties of the attach statement *)

\* the runs inserted by the requests that are under way
JustInserted == UNION {req[c].ids : c \in Clients}

\* C15: an attach statement whose id list names a run outside the
\* just-inserted set is rejected, and no execution of the statement changes
\* the state_id of such a pre-existing run.
C15_PreExistingNeverRewritten ==
    [][lastOp'.kind \in AttachKinds =>
          \A r \in DOMAIN flow_run \ JustInserted :
              flow_run'[r].state_id = flow_run[r].state_id]_vars

----------------------------------------------------------------------------
(* Properties of schema provisioning and of the lifetime of cache entries *)

\* C16: in the sqlite dialect every engine that engine() has returned for a
\* file that did not exist or for the in-memory store is an engine on a store
\* that has every table: the schema is provisioned before the engine is
\* handed out.
C16_ProvisionedBeforeReturn ==
    dialect = "sqlite" =>
        \A r \in returned :
            is_new_database(created[r.eng].url) =>
                metadata \subseteq DOMAIN store[created[r.eng].url]

\* the task in whose create_db() the step runs create_all
CreateAllBy(t) ==
    /\ stack[t] # <<>>
    /\ Top(stack[t]).pc = "begin"
    /\ stack'[t] # stack[t]

\* C18: create_db is idempotent: a call succeeds, leaves a store with every
\* object of the schema and with the objects and rows it had, and changes
\* nothing in a store that was provisioned already.
C18_CreateDbIdempotent ==
    [][\A t \in Tasks :
          CreateAllBy(t) =>
              LET url == created[Top(stack[t]).dbeng].url
              IN  /\ outcome'[t] = "ok"
                  /\ DOMAIN store'[url] = DOMAIN store[url] \cup metadata
                  /\ \A o \in DOMAIN store[url] : store'[url][o] = store[url][o]
                  /\ metadata \subseteq DOMAIN store[url] => store' = store
                  /\ \A u \in Urls \ {url} : store'[u] = store[u]]_vars

\* create_db has run twice against the file that had a table with a row
C18_Witness ==
    /\ create_all_runs = 2
    /\ provisioned = {"old.db"}
    /\ metadata \subseteq DOMAIN store["old.db"]
    /\ store["old.db"]["flow_run"] = 1

\* C19: a key of ENGINES or SESSION_FACTORIES stays present and mapped to the
\* same instance in every later state, and a call that finds its key in the
\* cache changes neither cache.
C19_EntriesNeverReplaced ==
    [][/\ \A k \in DOMAIN ENGINES :
             k \in DOMAIN ENGINES' /\ ENGINES'[k] = ENGINES[k]
       /\ \A k \in DOMAIN SESSION_FACTORIES :
             /\ k \in DOMAIN SESSION_FACTORIES'
             /\ SESSION_FACTORIES'[k] = SESSION_FACTORIES[k]
       /\ \A r \in returned' \ returned :
             r.key \in DOMAIN ENGINES =>
                 ENGINES' = ENGINES /\ SESSION_FACTORIES' = SESSION_FACTORIES
       /\ \A r \in returnedSF' \ returnedSF :
             r.key \in DOMAIN SESSION_FACTORIES =>
                 ENGINES' = ENGINES /\ SESSION_FACTORIES' = SESSION_FACTORIES]_vars

----------------------------------------------------------------------------
(* Properties of the registration of tasks *)

\* the last operation was the construction of task
Constructed ==
    /\ task # Absent
    /\ serialized = Absent
    /\ result.on = "none"

\* C20: constructing a Task or a Parameter under a flow context calls the
\* flow's add_task exactly once, with the object carrying every declarative
\* field, required and default included for a Parameter; constructing it
\* under no flow context calls add_task nowhere.
C20_RegisteredOnceComplete ==
    Constructed =>
        IF context.flow = "None"
        THEN add_task = <<>>
        ELSE /\ Len(add_task) = 1
             /\ add_task[1] = task
             /\ task.cls = "Parameter" =>
                   {"required", "default"} \subseteq DOMAIN add_task[1]

\* a Parameter with a default has been constructed under a flow context
C20_Witness ==
    /\ Constructed
    /\ context.flow = "flow"
    /\ task.cls = "Parameter"
    /\ task.default = "d"
    /\ add_task = <<task>>

----------------------------------------------------------------------------
(* Properties of prefect.runtime.task_run *)

----------------------------------------------------------------------------
(* Properties of the Database Interface over the two dialects *)

\* C22: in either dialect a call of OrionDBInterface.run_migrations(),
\* engine() or session_factory() that has ended has completed without an
\* error, and a session_factory() that has ended has returned a session
\* factory bound to the engine cached for the interface's
\* (connection_url, echo, timeout) on the caller's loop.
C22_DialectsSameContract ==
    \A t \in Tasks :
        (via[t] # "none" /\ stack[t] = <<>>) =>
            /\ outcome[t] = "ok"
            /\ via[t] = "session_factory" =>
                  /\ interface_key(get_event_loop(t)) \in DOMAIN ENGINES
                  /\ \E r \in returnedSF :
                        /\ r.loop = get_event_loop(t)
                        /\ factories[r.sf].bind =
                              ENGINES[interface_key(get_event_loop(t))]

\* C24: every call of AioSqliteConfiguration.engine() terminates and returns
\* an engine, the first call for the in-memory store or for a file that does
\* not exist included: no call ends in RecursionError, which is how a
\* create_db() that re-enters the miss path without bound ends.
C24_EngineTerminates ==
    \A t \in Tasks : outcome[t] # "RecursionError"

\* C25: in the sqlite dialect every engine built for a connection descriptor
\* that engine() treats as in-memory when it decides to provision (the
\* database contains ":memory:" or "mode=memory") has the SingletonThreadPool.
C25_InMemoryHasSingletonPool ==
    dialect = "sqlite" =>
        \A e \in 1..Len(created) :
            (\/ Contains(":memory:", created[e].url)
             \/ Contains("mode=memory", created[e].url)) =>
                created[e].poolclass = "SingletonThreadPool"

----------------------------------------------------------------------------
(* Properties of migration c0a9e054fd84 *)

====
